---- MODULE Spec2Model ----
(***************************************************************************)
(* A model of ytstrm: the manifest filter and cache (src/src/manifest.rs), *)
(* the playback path (src/src/main.rs), the sync engine and the rescan     *)
(* loop (src/src/config.rs) and the registry handlers (src/src/api).       *)
(***************************************************************************)
EXTENDS Integers, Sequences, FiniteSets, TLC

VARIABLES manifest, filtered, probe, now, ticks, lock, cache, req, sweep,
          channels, paused, maintain, nextUid, disk, rescan, pass

vars == <<manifest, filtered, probe, now, ticks, lock, cache, req, sweep,
          channels, paused, maintain, nextUid, disk, rescan, pass>>

(***************************************************************************)
(* Bounds of the model.                                                    *)
(***************************************************************************)
MaxItems == 4
MaxNowV == 4
ExpSpan == 6
MaxTicks == 1
MaxReqs == 1
MaxSources == 2
MaxManual == 1
MaxListing == 1
MaxCreated == 1
MaxScan == 2
MaxKeep == 2
MaxAge == 3

(***************************************************************************)
(* Program constants.                                                      *)
(***************************************************************************)
ValidMargin == 300
DefaultTtl == 21600
TopStreams == 3

Min(a, b) == IF a < b THEN a ELSE b
(***************************************************************************)
(* Manifest text.  A manifest is a sequence of lines; a line is kept as    *)
(* what the code reads of it:                                              *)
(*   k    the prefix: "INF" starts with #EXT-X-STREAM-INF:, "MEDIA" starts *)
(*        with #EXT-X-MEDIA:, "TAG" any other # line, "URL" anything else  *)
(*   bw   the text after the first BANDWIDTH= up to the next comma, as a   *)
(*        number; NoAttr when there is none, or it is no u32 (not a number *)
(*        or too wide)                                                     *)
(*   hi   the line contains "234"; def: it contains "DEFAULT=YES";         *)
(*   uri  it contains "URI"                                                *)
(*   exp  the number after the first "expire/" (0: no marker, BadExp: a    *)
(*        marker whose value is not a number)                              *)
(*   n    what tells two lines of the same shape apart (the rest of the    *)
(*        text)                                                            *)
(***************************************************************************)
NoAttr == -1
BadExp == -1

Line(k, bw, hi, def, uri, exp, n) ==
    [k |-> k, bw |-> bw, hi |-> hi, def |-> def, uri |-> uri, exp |-> exp, n |-> n]

NoLine == Line("NONE", NoAttr, FALSE, FALSE, FALSE, 0, 0)
HeaderLine1 == Line("TAG", NoAttr, FALSE, FALSE, FALSE, 0, 1)
HeaderLine2 == Line("TAG", NoAttr, FALSE, FALSE, FALSE, 0, 2)

\* bandwidth_str.parse::<u32>(): an error when absent or no u32
ParseErr == -1
parse_u32(s) == IF s >= 0 THEN s ELSE ParseErr

\* Option::or
OrElse(a, b) == IF a # NoLine THEN a ELSE b

\* the accumulators of the scan loop
ScanStart ==
    [video_streams |-> <<>>, high_audio_default |-> NoLine, high_audio_backup |-> NoLine,
     sd_audio_default |-> NoLine, sd_audio_backup |-> NoLine, panic |-> FALSE]

\* one #EXT-X-MEDIA line with a URI: the four slots
ClassifyAudio(acc, line) ==
    IF line.hi
    THEN IF line.def
         THEN [acc EXCEPT !.high_audio_default = line]
         ELSE IF acc.high_audio_default = NoLine
              THEN [acc EXCEPT !.high_audio_backup = line]
              ELSE acc
    ELSE IF line.def
         THEN [acc EXCEPT !.sd_audio_default = line]
         ELSE IF acc.sd_audio_default = NoLine
              THEN [acc EXCEPT !.sd_audio_backup = line]
              ELSE acc

\* a variant declaration with its URL line: kept when BANDWIDTH parses
PushStreamDropUnparsed(acc, info, url) ==
    IF parse_u32(info.bw) # ParseErr
    THEN [acc EXCEPT !.video_streams = Append(@, <<parse_u32(info.bw), info, url>>)]
    ELSE acc

PushStream(acc, info, url) == PushStreamDropUnparsed(acc, info, url)

\* the while loop over the lines; lines[i + 1] past the end aborts the task
RECURSIVE ScanLines(_, _, _)
ScanLines(lines, i, acc) ==
    IF i > Len(lines) THEN acc
    ELSE LET line == lines[i] IN
         IF line.k = "INF"
         THEN IF i + 1 > Len(lines)
              THEN [acc EXCEPT !.panic = TRUE]
              ELSE ScanLines(lines, i + 2, PushStream(acc, line, lines[i + 1]))
         ELSE IF line.k = "MEDIA" /\ line.uri
              THEN ScanLines(lines, i + 1, ClassifyAudio(acc, line))
              ELSE ScanLines(lines, i + 1, acc)

\* sort_by(|a, b| b.0.cmp(&a.0)): a stable sort, highest bandwidth first
InsertDesc(sorted, x) ==
    LET p == Cardinality({j \in 1..Len(sorted) : sorted[j][1] >= x[1]})
    IN  SubSeq(sorted, 1, p) \o <<x>> \o SubSeq(sorted, p + 1, Len(sorted))

InsertStream(sorted, x) == InsertDesc(sorted, x)

RECURSIVE SortStreams(_)
SortStreams(s) ==
    IF s = <<>> THEN <<>>
    ELSE InsertStream(SortStreams(SubSeq(s, 1, Len(s) - 1)), s[Len(s)])

\* video_streams.truncate(3)
TruncateTwo(s) == SubSeq(s, 1, Min(Len(s), 2))
TruncateStreams(s) == SubSeq(s, 1, Min(Len(s), TopStreams))

\* the priority chain of .or()
PickAudioSdFirst(acc) ==
    OrElse(acc.sd_audio_default,
           OrElse(acc.high_audio_default, OrElse(acc.high_audio_backup, acc.sd_audio_backup)))

PickAudio(acc) ==
    OrElse(acc.high_audio_default,
           OrElse(acc.sd_audio_default, OrElse(acc.high_audio_backup, acc.sd_audio_backup)))

\* (the declarations alone, without their URL lines)
RECURSIVE EmitInfoOnly(_)
EmitInfoOnly(s) ==
    IF s = <<>> THEN <<>> ELSE <<s[1][2]>> \o EmitInfoOnly(Tail(s))

\* the loop that pushes each kept declaration and its URL line
RECURSIVE EmitStreams(_)
EmitStreams(s) ==
    IF s = <<>> THEN <<>> ELSE <<s[1][2], s[1][3]>> \o EmitStreams(Tail(s))

\* filter_and_modify_manifest: the lines of final_manifest, or the abort
filter_and_modify_manifest(content) ==
    LET acc == ScanLines(content, 1, ScanStart)
        audio == PickAudio(acc)
    IN  IF acc.panic
        THEN [st |-> "panic", out |-> <<>>]
        ELSE [st |-> "ok",
              out |-> <<HeaderLine1, HeaderLine2>>
                      \o (IF audio # NoLine THEN <<audio>> ELSE <<>>)
                      \o EmitStreams(TruncateStreams(SortStreams(acc.video_streams)))]

(***************************************************************************)
(* A text as bytes are concerned: its lines, and whether the last of them  *)
(* is terminated by '\n' (nl).  A text with no line is the empty string.   *)
(***************************************************************************)
Text(lines, nl) == [lines |-> lines, nl |-> nl]
\* str::lines(): a final '\n' makes no line of its own
LinesOf(text) == text.lines
\* final_manifest: the header literal and every pushed line end in '\n'
BuiltText(out) == Text(out, TRUE)
\* manifest.ends_with('\n'), else format!("{}\n", manifest): the empty text
\* becomes one empty line
EnsureNewline(text) ==
    IF text.lines # <<>> /\ text.nl THEN text
    ELSE IF text.lines = <<>> THEN Text(<<NoLine>>, TRUE)
         ELSE [text EXCEPT !.nl = TRUE]
\* the filter followed by the normalization, as fetch_and_filter_manifest
\* applies them to a text
filter_then_normalize(text) ==
    LET f == filter_and_modify_manifest(LinesOf(text)) IN
    IF f.st = "ok" THEN [st |-> "ok", text |-> EnsureNewline(BuiltText(f.out))]
    ELSE [st |-> f.st, text |-> Text(<<>>, FALSE)]

(***************************************************************************)
(* ManifestCache.                                                          *)
(***************************************************************************)
\* the first line containing "expire/", or NoLine
RECURSIVE FirstMarked(_)
FirstMarked(content) ==
    IF content = <<>> THEN NoLine
    ELSE IF content[1].exp # 0 THEN content[1] ELSE FirstMarked(Tail(content))

\* ManifestCache::new at time t
ManifestCache_new(video_id, content, t) ==
    [video_id |-> video_id, content |-> content,
     expires |-> IF FirstMarked(content) # NoLine /\ FirstMarked(content).exp # BadExp
                 THEN FirstMarked(content).exp
                 ELSE t + DefaultTtl]

\* ManifestCache::is_valid at time t
is_valid_no_margin(expires, t) == expires >= t + ValidMargin
is_valid(expires, t) == expires > t + ValidMargin

(***************************************************************************)
(* The filter applied to bounded manifests.                                *)
(***************************************************************************)
BwSet == {NoAttr, 100, 200, 300, 400}

\* the pieces manifests are built from: a variant with its URL line, a variant
\* declaration with no URL line, an alternate-media declaration
Items ==
    {[t |-> "V", bw |-> b, hi |-> FALSE, def |-> FALSE, uri |-> FALSE] : b \in BwSet}
    \cup {[t |-> "B", bw |-> 100, hi |-> FALSE, def |-> FALSE, uri |-> FALSE]}
    \cup {[t |-> "M", bw |-> NoAttr, hi |-> h, def |-> d, uri |-> TRUE] : h, d \in BOOLEAN}
    \cup {[t |-> "M", bw |-> NoAttr, hi |-> TRUE, def |-> TRUE, uri |-> FALSE]}

ItemLines(it, n) ==
    IF it.t = "V"
    THEN <<Line("INF", it.bw, FALSE, FALSE, FALSE, 0, n), Line("URL", NoAttr, FALSE, FALSE, FALSE, 0, n)>>
    ELSE IF it.t = "B"
         THEN <<Line("INF", it.bw, FALSE, FALSE, FALSE, 0, n)>>
         ELSE <<Line("MEDIA", NoAttr, it.hi, it.def, it.uri, 0, n)>>

RECURSIVE Flatten(_, _)
Flatten(items, n) ==
    IF n > Len(items) THEN <<>> ELSE ItemLines(items[n], n) \o Flatten(items, n + 1)

Manifests == {Flatten(s, 1) : s \in UNION {[1..n -> Items] : n \in 0..MaxItems}}

NotRun == [st |-> "none", out |-> <<>>]

FilterIdle == manifest = <<>> /\ filtered = NotRun
FilterInit == manifest \in Manifests /\ filtered = NotRun

ApplyFilter ==
    /\ filtered = NotRun
    /\ filtered' = filter_and_modify_manifest(manifest)
    /\ UNCHANGED <<manifest, probe, now, ticks, lock, cache, req, sweep,
                   channels, paused, maintain, nextUid, disk, rescan, pass>>

(***************************************************************************)
(* is_valid applied to bounded expiry and clock values.                    *)
(***************************************************************************)
ProbeIdle == probe = [expires |-> 0, valid |-> "unset"]
ProbeInit ==
    /\ now \in 0..MaxNowV
    /\ probe \in [expires : (ValidMargin - ExpSpan)..(ValidMargin + MaxNowV + ExpSpan),
                  valid : {"unset"}]

ApplyIsValid ==
    /\ probe.valid = "unset"
    /\ probe' = [probe EXCEPT !.valid = IF is_valid(probe.expires, now) THEN "yes" ELSE "no"]
    /\ UNCHANGED <<manifest, filtered, now, ticks, lock, cache, req, sweep,
                   channels, paused, maintain, nextUid, disk, rescan, pass>>

(***************************************************************************)
(* Claims about the filter, stated on the input and the output text.       *)
(***************************************************************************)
\* the input shape of the filter: every variant-stream declaration is
\* immediately followed by a URL line
WellFormed(m) ==
    \A i \in 1..Len(m) : m[i].k = "INF" => (i < Len(m) /\ m[i + 1].k = "URL")

IsInf(l) == l.k = "INF"
IsMedia(l) == l.k = "MEDIA"
\* the variant declarations of the input, and those whose BANDWIDTH is a u32
Declared(m) == {i \in 1..Len(m) : m[i].k = "INF"}
DeclaredParsed(m) == {i \in 1..Len(m) : m[i].k = "INF" /\ m[i].bw >= 0}
\* the places of the variant declarations in the output
OutDeclared(out) == {j \in 1..Len(out) : out[j].k = "INF"}

\* the kept variants are declarations of the input, each once, each followed
\* by its own URL line, and no dropped declaration has a higher bandwidth
KeepsHighest(m, out, decls) ==
    /\ \A j \in OutDeclared(out) :
          /\ \E i \in decls : m[i] = out[j]
          /\ j < Len(out) /\ out[j + 1].k = "URL" /\ out[j + 1].n = out[j].n
    /\ \A j, k \in OutDeclared(out) : j # k => out[j] # out[k]
    /\ \A i \in decls :
          (\A j \in OutDeclared(out) : out[j] # m[i])
             => \A j \in OutDeclared(out) : m[i].bw <= out[j].bw

\* C9 as amended: on a manifest of the input shape, with N the number of
\* variant declarations whose BANDWIDTH parses, the output has exactly
\* min(N,3) variants, they are the ones with the highest BANDWIDTH, and
\* their bandwidths appear in non-increasing order (equal ones in input order).
C9_TopThreeNonIncreasing ==
    (filtered.st # "none" /\ WellFormed(manifest)) =>
        /\ filtered.st = "ok"
        /\ Cardinality(OutDeclared(filtered.out))
              = Min(Cardinality(DeclaredParsed(manifest)), TopStreams)
        /\ KeepsHighest(manifest, filtered.out, DeclaredParsed(manifest))
        /\ \A j, k \in OutDeclared(filtered.out) :
              j < k => /\ filtered.out[j].bw >= filtered.out[k].bw
                       /\ (filtered.out[j].bw = filtered.out[k].bw
                              => filtered.out[j].n < filtered.out[k].n)

\* C9 as stated: min(N,3) variants of the N declared, strictly descending.
C9_Original ==
    (filtered.st # "none" /\ WellFormed(manifest)) =>
        /\ filtered.st = "ok"
        /\ Cardinality(OutDeclared(filtered.out))
              = Min(Cardinality(Declared(manifest)), TopStreams)
        /\ \A j, k \in OutDeclared(filtered.out) :
              j < k => filtered.out[j].bw > filtered.out[k].bw

\* four parsed variants, two of them with the same bandwidth among the kept
C9_Witness ==
    /\ filtered.st = "ok" /\ WellFormed(manifest)
    /\ Cardinality(DeclaredParsed(manifest)) = 4
    /\ Cardinality(OutDeclared(filtered.out)) = 3
    /\ \E j, k \in OutDeclared(filtered.out) :
          j < k /\ filtered.out[j].bw = filtered.out[k].bw

\* the priority classes of an alternate-media declaration
AudioRank(l) == IF l.def THEN (IF l.hi THEN 1 ELSE 2) ELSE (IF l.hi THEN 3 ELSE 4)
AudioPresent(m) == {i \in 1..Len(m) : m[i].k = "MEDIA" /\ m[i].uri}
OutAudio(out) == {j \in 1..Len(out) : out[j].k = "MEDIA"}

\* C10: on a manifest of the input shape the output has at most one audio
\* line; it is a declaration of the input carrying a URI, of the
\* highest-priority class present (high+default, standard+default,
\* high+backup, standard+backup); there is none only when the input has none.
C10_AudioPriority ==
    (filtered.st # "none" /\ WellFormed(manifest)) =>
        /\ filtered.st = "ok"
        /\ Cardinality(OutAudio(filtered.out)) <= 1
        /\ (OutAudio(filtered.out) = {}) <=> (AudioPresent(manifest) = {})
        /\ \A j \in OutAudio(filtered.out) :
              /\ \E i \in AudioPresent(manifest) : manifest[i] = filtered.out[j]
              /\ \A i \in AudioPresent(manifest) :
                    AudioRank(filtered.out[j]) <= AudioRank(manifest[i])

\* a standard default declared before a high default and a high backup:
\* the high default is the one emitted
C10_Witness ==
    /\ filtered.st = "ok" /\ WellFormed(manifest)
    /\ \E a, b, c \in AudioPresent(manifest) :
          /\ a < b /\ AudioRank(manifest[a]) = 2 /\ AudioRank(manifest[b]) = 1
          /\ AudioRank(manifest[c]) = 3
    /\ \E j \in OutAudio(filtered.out) : AudioRank(filtered.out[j]) = 1

\* C11: filtering plus trailing-newline normalization is idempotent: when the
\* filter returns a result r for a manifest, applying the filter and the
\* normalization to r again succeeds and yields a text identical to r, line
\* by line and in its final newline.
C11_FilterIdempotent ==
    filtered.st = "ok" =>
        LET r == EnsureNewline(BuiltText(filtered.out)) IN
        /\ r.nl
        /\ filter_then_normalize(r) = [st |-> "ok", text |-> r]

\* a result with an audio line and two variants, cut from a manifest whose
\* variants were not in descending order and with a
\* declaration that had another declaration in the place of its URL line
C11_Witness ==
    /\ filtered.st = "ok"
    /\ Len(filtered.out) = 7
    /\ OutAudio(filtered.out) # {}
    /\ \E i, j \in Declared(manifest) :
          i < j /\ manifest[i].bw # NoAttr /\ manifest[j].bw # NoAttr /\ manifest[i].bw < manifest[j].bw
    /\ \E i \in Declared(manifest) : i < Len(manifest) /\ manifest[i + 1].k = "INF"

(***************************************************************************)
(* C6: the validity boundary.                                              *)
(***************************************************************************)
\* C6: an entry is valid if and only if expiresAt > now + 300: now+301 is
\* valid, now+300 and now+299 are not.
C6_ValidIffBeyondMargin ==
    probe.valid # "unset" =>
        /\ (probe.valid = "yes") <=> (probe.expires > now + 300)
        /\ probe.expires = now + 301 => probe.valid = "yes"
        /\ probe.expires = now + 300 => probe.valid = "no"
        /\ probe.expires = now + 299 => probe.valid = "no"

C6_Witness == probe.valid = "no" /\ probe.expires = now + 300 /\ now > 0

(***************************************************************************)
(* The clock.  now is seconds since the epoch; it only moves forward.      *)
(***************************************************************************)
StartTime == 1000000
TickSteps == {21300}

ClockInit == now = StartTime /\ ticks = 0

(***************************************************************************)
(* The registry lock: tokio::sync::RwLock<Config>.  lock is the set of     *)
(* tasks that hold a read guard.  No write section has an await inside it, *)
(* so a write guard is taken and dropped within one step: a writer needs   *)
(* the set to be empty.                                                    *)
(***************************************************************************)
PlayTask(r) == <<"play", r>>
LockInit == lock = {}
CanWrite == lock = {}

(***************************************************************************)
(* The manifest cache directory: one file per video id, holding the text   *)
(* only.  written is the time of the write (the file's mtime, which the    *)
(* code never reads).                                                      *)
(***************************************************************************)
Videos == {"v1", "v2"}
NoFile == [content |-> <<>>, written |-> -1]
CacheInit == cache = [v \in Videos |-> NoFile]

\* ManifestCache::load at time t: the text is read back and the entry rebuilt
ManifestCache_load(video_id, t) == ManifestCache_new(video_id, cache[video_id].content, t)

\* (a save that appends to the file)
SaveEntryAppend(entry, t) ==
    [cache EXCEPT ![entry.video_id] =
        [content |-> cache[entry.video_id].content \o entry.content, written |-> t]]
\* ManifestCache::save: the file is overwritten with the content
SaveEntry(entry, t) == [cache EXCEPT ![entry.video_id] = [content |-> entry.content, written |-> t]]

(***************************************************************************)
(* What the Collaborator and the network answer.                           *)
(***************************************************************************)
\* yt-dlp -j: the run fails (spawn error, non-zero exit, no output), the
\* output is no JSON, no format has a manifest_url, or one has
MetaOutcomes == {"exec_failed", "bad_json", "no_manifest_url", "manifest_url"}

\* the manifest bodies the upstream serves: sig says the text contains #EXTM3U;
\* the URL lines carry the expiry marker e (0: none)
WithExpiry(lines, e) ==
    [i \in DOMAIN lines |-> IF lines[i].k = "URL" THEN [lines[i] EXCEPT !.exp = e] ELSE lines[i]]

VariantItem(b) == [t |-> "V", bw |-> b, hi |-> FALSE, def |-> FALSE, uri |-> FALSE]
BareItem(b) == [t |-> "B", bw |-> b, hi |-> FALSE, def |-> FALSE, uri |-> FALSE]
AudioItem(h, d) == [t |-> "M", bw |-> NoAttr, hi |-> h, def |-> d, uri |-> TRUE]

GoodBody == Flatten(<<AudioItem(TRUE, TRUE), VariantItem(100), VariantItem(300)>>, 1)
TruncatedBody == Flatten(<<VariantItem(300), BareItem(100)>>, 1)

\* marker offsets: no marker, an expiry 1000 s ahead
MarkerOffsets == {0, 1000}
Bodies(t) ==
    {[sig |-> TRUE, lines |-> WithExpiry(GoodBody, IF d = 0 THEN 0 ELSE t + d)] : d \in MarkerOffsets}
    \cup {[sig |-> TRUE, lines |-> TruncatedBody], [sig |-> FALSE, lines |-> <<>>]}

NetErr == [sig |-> FALSE, lines |-> <<NoLine>>]
HttpOutcomes(t) == Bodies(t) \cup {NetErr}

(***************************************************************************)
(* Playback: stream_youtube and direct_mp4_streaming.  One record per      *)
(* request in flight.                                                      *)
(***************************************************************************)
Reqs == 1..MaxReqs
NoResp == [status |-> 0, body |-> <<>>]
StreamBody == <<Line("URL", NoAttr, FALSE, FALSE, FALSE, 0, 0)>>
IdleReq == [pc |-> "idle", v |-> "v1", via |-> "none", resp |-> NoResp]
ReqInit == req = [r \in Reqs |-> IdleReq]

\* the cache short-circuit of stream_youtube
CacheServesPresent(v) == cache[v] # NoFile
CacheServes(v) ==
    cache[v] # NoFile /\ is_valid(ManifestCache_load(v, now).expires, now)

\* the text fetch_and_filter_manifest returns: the filter's output (it ends
\* with a newline as it is)
Normalized(out) == LinesOf(EnsureNewline(BuiltText(out)))

UNCHANGED_pure == UNCHANGED <<manifest, filtered, probe>>

\* (a fetch that stores the body as it arrives, before it is looked at)
FilterAndCacheRawFirst(video_id, body, save_cache, io_ok, t) ==
    [st |-> IF body = NetErr \/ ~body.sig THEN "err"
            ELSE filter_and_modify_manifest(body.lines).st,
     manifest |-> <<>>,
     cache |-> SaveEntry(ManifestCache_new(video_id, body.lines, t), t)]

\* fetch_and_filter_manifest from the manifest body on: the signature check,
\* the filter, the newline, the save (io_ok: whether the write succeeds; its
\* failure is logged only).  st is "ok" (Ok(manifest)), "err" or "panic".
FilterAndCache(video_id, body, save_cache, io_ok, t) ==
    IF body = NetErr \/ ~body.sig
    THEN [st |-> "err", manifest |-> <<>>, cache |-> cache]
    ELSE LET f == filter_and_modify_manifest(body.lines) IN
         IF f.st = "panic"
         THEN [st |-> "panic", manifest |-> <<>>, cache |-> cache]
         ELSE [st |-> "ok", manifest |-> Normalized(f.out),
               cache |-> IF save_cache /\ io_ok
                         THEN SaveEntry(ManifestCache_new(video_id, Normalized(f.out), t), t)
                         ELSE cache]

UNCHANGED_registry == UNCHANGED <<channels, paused, maintain, nextUid>>
UNCHANGED_sync == UNCHANGED <<disk, rescan, pass>>

\* stream_youtube up to its first await: the read guard is taken and kept
PlayBegin(r, v) ==
    /\ req[r].pc = "idle"
    /\ IF CacheServes(v)
       THEN /\ req' = [req EXCEPT ![r] = [pc |-> "done", v |-> v, via |-> "cache",
                          resp |-> [status |-> 200, body |-> ManifestCache_load(v, now).content]]]
            /\ UNCHANGED lock
       ELSE /\ req' = [req EXCEPT ![r] = [pc |-> "meta", v |-> v, via |-> "none", resp |-> NoResp]]
            /\ lock' = lock \cup {PlayTask(r)}
    /\ UNCHANGED <<now, ticks, cache, sweep>>
    /\ UNCHANGED_registry /\ UNCHANGED_sync /\ UNCHANGED_pure

\* the yt-dlp -j call of fetch_and_filter_manifest returns
PlayMeta(r, o) ==
    /\ req[r].pc = "meta"
    /\ req' = [req EXCEPT ![r].pc = IF o = "manifest_url" THEN "http" ELSE "fallback"]
    /\ UNCHANGED <<now, ticks, cache, lock, sweep>>
    /\ UNCHANGED_registry /\ UNCHANGED_sync /\ UNCHANGED_pure

\* the manifest request returns; Ok(manifest) is answered with status 200, an
\* Err goes on to direct_mp4_streaming, a panic ends the task with no response
PlayHttp(r, body, io_ok) ==
    /\ req[r].pc = "http"
    /\ LET f == FilterAndCache(req[r].v, body, TRUE, io_ok, now) IN
       /\ cache' = f.cache
       /\ IF f.st = "ok"
          THEN /\ req' = [req EXCEPT ![r].pc = "done", ![r].via = "fetch",
                              ![r].resp = [status |-> 200, body |-> f.manifest]]
               /\ lock' = lock \ {PlayTask(r)}
          ELSE IF f.st = "panic"
               THEN /\ req' = [req EXCEPT ![r].pc = "aborted", ![r].via = "panic"]
                    /\ lock' = lock \ {PlayTask(r)}
               ELSE /\ req' = [req EXCEPT ![r].pc = "fallback"]
                    /\ UNCHANGED lock
    /\ UNCHANGED <<now, ticks, sweep>>
    /\ UNCHANGED_registry /\ UNCHANGED_sync /\ UNCHANGED_pure

\* direct_mp4_streaming: yt-dlp is spawned and its stdout becomes the body, or
\* the spawn fails and the answer is status 500; the handler returns
PlayFallback(r, spawned) ==
    /\ req[r].pc = "fallback"
    /\ req' = [req EXCEPT ![r].pc = IF spawned THEN "streaming" ELSE "done",
                          ![r].via = "fallback",
                          ![r].resp = IF spawned THEN [status |-> 200, body |-> StreamBody]
                                      ELSE [status |-> 500, body |-> <<>>]]
    /\ lock' = lock \ {PlayTask(r)}
    /\ UNCHANGED <<now, ticks, cache, sweep>>
    /\ UNCHANGED_registry /\ UNCHANGED_sync /\ UNCHANGED_pure

\* the fallback yt-dlp process ends
PlayStreamEnd(r) ==
    /\ req[r].pc = "streaming"
    /\ req' = [req EXCEPT ![r].pc = "done"]
    /\ UNCHANGED <<now, ticks, cache, lock, sweep>>
    /\ UNCHANGED_registry /\ UNCHANGED_sync /\ UNCHANGED_pure

\* the request is over; the slot takes the next one
PlayClose(r) ==
    /\ req[r].pc \in {"done", "aborted"}
    /\ req' = [req EXCEPT ![r] = IdleReq]
    /\ UNCHANGED <<now, ticks, cache, lock, sweep>>
    /\ UNCHANGED_registry /\ UNCHANGED_sync /\ UNCHANGED_pure

PlayOutstanding(r) == req[r].pc \in {"meta", "http", "streaming"}

(***************************************************************************)
(* The cache sweep: maintain_manifest_cache.                               *)
(***************************************************************************)
SweepInit == sweep = [pc |-> "top", files |-> <<>>]
SweepHorizon == 1800
CachedIds == {v \in Videos : cache[v] # NoFile}
\* read_dir: the .m3u8 files of the directory, in the directory's order
RECURSIVE SeqOf(_)
SeqOf(S) == IF S = {} THEN <<>> ELSE LET x == CHOOSE y \in S : TRUE IN <<x>> \o SeqOf(S \ {x})

\* where the head of the loop goes: the 900 s sleep, the head again with no
\* sleep (continue) when the directory cannot be created, or the listing
SweepTopTo(dir_ok) ==
    IF channels = <<>> \/ ~maintain
    THEN [pc |-> "sleep900", files |-> <<>>]
    ELSE IF ~dir_ok THEN [pc |-> "top", files |-> <<>>]
         ELSE [pc |-> "iter", files |-> SeqOf(CachedIds)]
\* the head of the loop: the read guard is taken and dropped; then the
\* directory is created (dir_ok) and listed
SweepTop(dir_ok) ==
    /\ sweep.pc = "top"
    /\ sweep' = SweepTopTo(dir_ok)
    /\ UNCHANGED <<now, ticks, cache, lock, req>>
    /\ UNCHANGED_registry /\ UNCHANGED_sync /\ UNCHANGED_pure

\* one file of the listing: loaded, and refreshed when it expires within 1800 s
SweepIter ==
    /\ sweep.pc = "iter"
    /\ sweep' = IF sweep.files = <<>> THEN [sweep EXCEPT !.pc = "sleep1800"]
                ELSE IF cache[Head(sweep.files)] # NoFile
                        /\ ManifestCache_load(Head(sweep.files), now).expires < now + SweepHorizon
                     THEN [sweep EXCEPT !.pc = "meta"]
                     ELSE [sweep EXCEPT !.files = Tail(@)]
    /\ UNCHANGED <<now, ticks, cache, lock, req>>
    /\ UNCHANGED_registry /\ UNCHANGED_sync /\ UNCHANGED_pure

SweepMeta(o) ==
    /\ sweep.pc = "meta"
    /\ sweep' = [sweep EXCEPT !.pc = IF o = "manifest_url" THEN "http" ELSE "sleep15"]
    /\ UNCHANGED <<now, ticks, cache, lock, req>>
    /\ UNCHANGED_registry /\ UNCHANGED_sync /\ UNCHANGED_pure

\* the refresh returns: an Err is logged; a panic of the filter ends the task
SweepHttp(body, io_ok) ==
    /\ sweep.pc = "http"
    /\ LET f == FilterAndCache(Head(sweep.files), body, TRUE, io_ok, now) IN
       /\ cache' = f.cache
       /\ sweep' = [sweep EXCEPT !.pc = IF f.st = "panic" THEN "dead" ELSE "sleep15"]
    /\ UNCHANGED <<now, ticks, lock, req>>
    /\ UNCHANGED_registry /\ UNCHANGED_sync /\ UNCHANGED_pure

\* a sleep ends: 15 s after a refresh, 900 s or 1800 s at the end of a round
SweepWake ==
    /\ sweep.pc \in {"sleep15", "sleep900", "sleep1800"}
    /\ sweep' = IF sweep.pc = "sleep15" THEN [pc |-> "iter", files |-> Tail(sweep.files)]
                ELSE [pc |-> "top", files |-> <<>>]
    /\ UNCHANGED <<now, ticks, cache, lock, req>>
    /\ UNCHANGED_registry /\ UNCHANGED_sync /\ UNCHANGED_pure

(***************************************************************************)
(* Settings: toggle_manifest_maintenance (a registry mutation).            *)
(***************************************************************************)
ToggleMaintenance ==
    /\ CanWrite
    /\ maintain' = ~maintain
    /\ UNCHANGED <<now, ticks, cache, lock, req, sweep, channels, paused, nextUid>>
    /\ UNCHANGED_sync /\ UNCHANGED_pure

\* time passes
Tick(d) ==
    /\ ticks < MaxTicks
    /\ now' = now + d
    /\ ticks' = ticks + 1
    /\ UNCHANGED <<cache, lock, req, sweep>>
    /\ UNCHANGED_registry /\ UNCHANGED_sync /\ UNCHANGED_pure

(***************************************************************************)
(* The registry: Config.channels, a Vec<Channel>.  handle is the handle of *)
(* a Channel source or the id of a Playlist source; 0 stands for None in   *)
(* max_videos and max_age_days; last_checked is seconds since the epoch;   *)
(* uid tells the sources ever created apart (the code has no such field).  *)
(***************************************************************************)
DaySecs == 86400
Epoch == 0
Handles == {"a", "b"}
Kinds == {"Channel", "Playlist"}
\* the source ids the requests name
Tracked == {"a"}

Channel(id, kind, handle, max_videos, max_age_days, last_checked, uid) ==
    [id |-> id, kind |-> kind, handle |-> handle, max_videos |-> max_videos,
     max_age_days |-> max_age_days, last_checked |-> last_checked, media_dir |-> id,
     uid |-> uid]

\* config.channels.iter().position(|c| c.id == id), 0 when there is none
FindIdx(chs, id) ==
    IF \E i \in 1..Len(chs) : chs[i].id = id
    THEN CHOOSE i \in 1..Len(chs) : chs[i].id = id /\ \A j \in 1..(i - 1) : chs[j].id # id
    ELSE 0

\* the initial watermark of a source: now minus max_age_days, or the epoch
InitialWatermark(kind, max_age_days, t) ==
    IF kind = "Channel" /\ max_age_days > 0 THEN t - max_age_days * DaySecs ELSE Epoch

RegistryInit ==
    /\ channels = <<Channel("a", "Channel", "a", 0, 0, Epoch, 1)>>
    /\ paused = FALSE /\ maintain = FALSE /\ nextUid = 2

UNCHANGED_play == UNCHANGED <<req, sweep>>

\* create_channel
create_channel(handle, max_videos, max_age_days) ==
    /\ CanWrite
    /\ Len(channels) < MaxSources /\ nextUid <= MaxCreated + 1
    /\ ~\E i \in 1..Len(channels) : channels[i].kind = "Channel" /\ channels[i].handle = handle
    /\ channels' = Append(channels,
                     Channel(handle, "Channel", handle, max_videos, max_age_days,
                             InitialWatermark("Channel", max_age_days, now), nextUid))
    /\ nextUid' = nextUid + 1
    /\ UNCHANGED <<now, ticks, lock, cache, paused, maintain, disk, rescan, pass>>
    /\ UNCHANGED_play /\ UNCHANGED_pure

\* create_playlist
create_playlist(playlist_id) ==
    /\ CanWrite
    /\ Len(channels) < MaxSources /\ nextUid <= MaxCreated + 1
    /\ ~\E i \in 1..Len(channels) : channels[i].kind = "Playlist" /\ channels[i].handle = playlist_id
    /\ channels' = Append(channels, Channel(playlist_id, "Playlist", playlist_id, 0, 0, Epoch, nextUid))
    /\ nextUid' = nextUid + 1
    /\ UNCHANGED <<now, ticks, lock, cache, paused, maintain, disk, rescan, pass>>
    /\ UNCHANGED_play /\ UNCHANGED_pure

\* update_channel and update_playlist: the first source with the id, when it
\* is of the handler's kind
update_source(kind, id, handle, max_videos, max_age_days) ==
    /\ CanWrite
    /\ FindIdx(channels, id) # 0
    /\ channels[FindIdx(channels, id)].kind = kind
    /\ channels' = [channels EXCEPT ![FindIdx(channels, id)].handle = handle,
                                   ![FindIdx(channels, id)].max_videos = max_videos,
                                   ![FindIdx(channels, id)].max_age_days = max_age_days]
    /\ UNCHANGED <<now, ticks, lock, cache, paused, maintain, nextUid, disk, rescan, pass>>
    /\ UNCHANGED_play /\ UNCHANGED_pure

\* delete_channel and delete_playlist: retain() drops every source of the
\* handler's kind with the id; the media directory is left as it is
RECURSIVE Retain(_, _, _)
Retain(chs, kind, id) ==
    IF chs = <<>> THEN <<>>
    ELSE (IF chs[1].kind # kind \/ chs[1].id # id THEN <<chs[1]>> ELSE <<>>)
         \o Retain(Tail(chs), kind, id)

delete_source(kind, id) ==
    /\ CanWrite
    /\ channels' = Retain(channels, kind, id)
    /\ channels' # channels
    /\ UNCHANGED <<now, ticks, lock, cache, paused, maintain, nextUid, disk, rescan, pass>>
    /\ UNCHANGED_play /\ UNCHANGED_pure

\* toggle_background_tasks
toggle_background_tasks ==
    /\ CanWrite
    /\ paused' = ~paused
    /\ UNCHANGED <<now, ticks, lock, cache, channels, maintain, nextUid, disk, rescan, pass>>
    /\ UNCHANGED_play /\ UNCHANGED_pure

(***************************************************************************)
(* The media tree.  disk[d] is the directory of media_dir d: whether it    *)
(* exists, its own files (poster.jpg, landscape.jpg, tvshow.nfo), its      *)
(* season directories and the files in them.                               *)
(***************************************************************************)
NoDir == [exists |-> FALSE, top |-> {}, seasons |-> {}, files |-> {}]
DiskInit == disk = [d \in Handles |-> NoDir]

\* VideoInfo; a title is its characters, an upload date the number YYYYMMDD
\* (0: a date whose first four characters are no number)
VideoInfo(id, title, upload_date) == [id |-> id, title |-> title, upload_date |-> upload_date]
SafeChars == {"A", "B", "-", " "}
create_safe_filename(base) ==
    [i \in DOMAIN base |-> IF base[i] \in SafeChars THEN base[i] ELSE "_"]
\* the file stem: the safe form of upload_date + " - " + title
Stem(video) == <<video.upload_date, create_safe_filename(<<" ", "-", " ">> \o video.title)>>
\* get_season_from_date: the year, 0 for an error
get_season_from_date(upload_date) == upload_date \div 10000
File(video, ext) == [season |-> get_season_from_date(video.upload_date), stem |-> Stem(video), ext |-> ext]
\* (a check that never finds the stub)
StubNeverExists(d, video) == FALSE
StubExists(d, video) == File(video, "strm") \in disk[d].files

\* the records a listing can hold
Upstream ==
    <<VideoInfo("v1", <<"A">>, 20240105), VideoInfo("v2", <<"B", "?">>, 20230101)>>
\* the listings yt-dlp can print: up to MaxListing records, in any order, of
\* the first MaxListing videos upstream
Listed == {Upstream[i] : i \in 1..Min(MaxListing, Len(Upstream))}
Listings ==
    {<<>>} \cup {<<x>> : x \in Listed}
    \cup {<<x, y>> : x, y \in {z \in Listed : MaxListing >= 2}}

\* videos.sort_by(|a, b| b.upload_date.cmp(&a.upload_date)): stable, newest first
InsertNewest(sorted, x) ==
    LET p == Cardinality({j \in 1..Len(sorted) : sorted[j].upload_date >= x.upload_date})
    IN  SubSeq(sorted, 1, p) \o <<x>> \o SubSeq(sorted, p + 1, Len(sorted))
RECURSIVE SortNewest(_)
SortNewest(list) ==
    IF list = <<>> THEN <<>>
    ELSE InsertNewest(SortNewest(SubSeq(list, 1, Len(list) - 1)), list[Len(list)])
\* videos.truncate(max_videos), for a Channel source with max_videos set
TruncateVideos(ch, list) ==
    IF ch.kind = "Channel" /\ ch.max_videos > 0
    THEN SubSeq(list, 1, Min(Len(list), ch.max_videos))
    ELSE list

(***************************************************************************)
(* A sync pass: Channel::process_new_videos on a snapshot ch of a source.  *)
(* One slot per run in flight: the k-th source of the rescan loop's        *)
(* snapshot, or a manually triggered run.                                  *)
(***************************************************************************)
RescanSlot(k) == <<"rescan", k>>
ManualSlot(m) == <<"manual", m>>
RescanSlots == {RescanSlot(k) : k \in 1..MaxSources}
ManualSlots == {ManualSlot(m) : m \in 1..MaxManual}
Slots == RescanSlots \cup ManualSlots

\* &self of a pass: the clone of the source it was started on, with the
\* fields the pass branches on (the others only shape the listing request,
\* whose answer is the environment's); uid is the source it was cloned from
Snapshot(ch) ==
    [id |-> ch.id, kind |-> ch.kind, max_videos |-> ch.max_videos, media_dir |-> ch.media_dir,
     uid |-> ch.uid]
NoChannel == Snapshot(Channel("", "none", "", 0, 0, Epoch, 0))
NoPass == [pc |-> "none", ch |-> NoChannel, videos |-> <<>>, i |-> 0, new_videos |-> 0, res |-> "none"]
StartPass(ch) == [pc |-> "start", ch |-> Snapshot(ch), videos |-> <<>>, i |-> 0, new_videos |-> 0, res |-> "none"]
PassInit == pass = [o \in Slots |-> NoPass]

\* the pass returns: its locals are dropped
Ended(p, res) == [NoPass EXCEPT !.pc = "ended", !.res = res]
\* the for loop goes to the next video, or leaves the loop
NextVideo(p) ==
    [p EXCEPT !.i = p.i + 1, !.pc = IF p.i + 1 > Len(p.videos) THEN "advance" ELSE "video"]

InFlight(o) == pass[o].pc \notin {"none", "ended"}
\* a yt-dlp run of the pass is outstanding
CollabOutstanding(o) == pass[o].pc \in {"images", "listing", "prewarm_meta"}
\* an HTTP request of the pass is outstanding
NetOutstanding(o) == pass[o].pc \in {"thumb", "prewarm_http"}

UNCHANGED_others == UNCHANGED <<now, ticks, lock, paused, maintain, nextUid, rescan>>

\* create_channel_structure, to its yt-dlp --list-thumbnails call
PassStructure(o, dir_ok) ==
    /\ pass[o].pc = "start"
    /\ IF dir_ok
       THEN /\ disk' = [disk EXCEPT ![pass[o].ch.media_dir].exists = TRUE]
            /\ pass' = [pass EXCEPT ![o].pc = "images"]
       ELSE /\ pass' = [pass EXCEPT ![o] = Ended(@, "err")]
            /\ UNCHANGED disk
    /\ UNCHANGED <<cache, channels>> /\ UNCHANGED_others
    /\ UNCHANGED_play /\ UNCHANGED_pure

\* the thumbnail listing returns; the images are fetched and written when
\* there are any (img_ok); tvshow.nfo is written (nfo_ok; a failure ends the
\* pass)
PassImages(o, img_ok, nfo_ok) ==
    /\ pass[o].pc = "images"
    /\ IF disk[pass[o].ch.media_dir].exists
       THEN /\ disk' = [disk EXCEPT ![pass[o].ch.media_dir].top =
                            @ \cup (IF img_ok THEN {"poster.jpg", "landscape.jpg"} ELSE {})
                              \cup (IF nfo_ok THEN {"tvshow.nfo"} ELSE {})]
            /\ pass' = [pass EXCEPT ![o] = IF nfo_ok THEN [@ EXCEPT !.pc = "listing"]
                                           ELSE Ended(@, "err")]
       ELSE /\ pass' = [pass EXCEPT ![o] = Ended(@, "err")]
            /\ UNCHANGED disk
    /\ UNCHANGED <<cache, channels>> /\ UNCHANGED_others
    /\ UNCHANGED_play /\ UNCHANGED_pure

\* scan_videos: the listing call returns; spawned: whether yt-dlp could be run
\* (a pass that goes on to the watermark when there is no candidate)
ScanResultLenient(p, spawned, videos) ==
    IF ~spawned THEN Ended(p, "err")
    ELSE [p EXCEPT !.videos = videos, !.i = 1, !.pc = IF videos = <<>> THEN "advance" ELSE "video"]
\* scan_videos(...)?: an Err (yt-dlp not run, or no video left) ends the pass
ScanResult(p, spawned, videos) ==
    IF ~spawned \/ videos = <<>> THEN Ended(p, "err")
    ELSE [p EXCEPT !.videos = videos, !.i = 1, !.pc = "video"]

PassListing(o, spawned, listing) ==
    /\ pass[o].pc = "listing"
    /\ pass' = [pass EXCEPT ![o] =
                  ScanResult(@, spawned, TruncateVideos(pass[o].ch, SortNewest(listing)))]
    /\ UNCHANGED <<cache, channels, disk>> /\ UNCHANGED_others
    /\ UNCHANGED_play /\ UNCHANGED_pure

\* the Output of the listing run: its exit status and the records on stdout
Output(success, stdout) == [success |-> success, stdout |-> stdout]
\* scan_videos on the Output of a run: stdout is parsed and stderr logged;
\* output.status is not read
PassListingOutput(o, spawned, output) == PassListing(o, spawned, output.stdout)

\* process_video to its first await: the season, the existence check of the
\* stub pointer file, the season directory
PassVideo(o, dir_ok) ==
    /\ pass[o].pc = "video"
    /\ LET video == pass[o].videos[pass[o].i]
           d == pass[o].ch.media_dir
       IN  IF get_season_from_date(video.upload_date) = 0 \/ StubExists(d, video)
           THEN /\ pass' = [pass EXCEPT ![o] = NextVideo(@)]
                /\ UNCHANGED disk
           ELSE IF dir_ok
                THEN /\ disk' = [disk EXCEPT ![d].exists = TRUE,
                                    ![d].seasons = @ \cup {get_season_from_date(video.upload_date)}]
                     /\ pass' = [pass EXCEPT ![o].pc = "thumb"]
                ELSE /\ pass' = [pass EXCEPT ![o] = NextVideo(@)]
                     /\ UNCHANGED disk
    /\ UNCHANGED <<cache, channels>> /\ UNCHANGED_others
    /\ UNCHANGED_play /\ UNCHANGED_pure

\* the thumbnail request returns (net_ok); the thumbnail, the metadata file
\* and the stub pointer file are written in this order, the first `writes`
\* of them successfully; none can be written once the season directory is gone
\* (an order with the stub pointer file first)
StubFirstExts == <<"strm", "nfo", "-thumb.jpg">>
ArtifactExts == <<"-thumb.jpg", "nfo", "strm">>
PassThumb(o, net_ok, writes) ==
    /\ pass[o].pc = "thumb"
    /\ LET video == pass[o].videos[pass[o].i]
           d == pass[o].ch.media_dir
           can == get_season_from_date(video.upload_date) \in disk[d].seasons
           n == IF net_ok /\ can THEN writes ELSE 0
       IN  /\ disk' = [disk EXCEPT ![d].files = @ \cup {File(video, ArtifactExts[k]) : k \in 1..n}]
           /\ pass' = [pass EXCEPT ![o] = IF n = 3 THEN [@ EXCEPT !.pc = "prewarm_meta"]
                                          ELSE NextVideo(@)]
    /\ UNCHANGED <<cache, channels>> /\ UNCHANGED_others
    /\ UNCHANGED_play /\ UNCHANGED_pure

\* the yt-dlp -j call of the pre-warm returns
PassPrewarmMeta(o, outcome) ==
    /\ pass[o].pc = "prewarm_meta"
    /\ pass' = [pass EXCEPT ![o] = IF outcome = "manifest_url" THEN [@ EXCEPT !.pc = "prewarm_http"]
                                   ELSE NextVideo(@)]
    /\ UNCHANGED <<cache, channels, disk>> /\ UNCHANGED_others
    /\ UNCHANGED_play /\ UNCHANGED_pure

\* (a counted video with no wait after it)
CountedNoCooldown(p) == NextVideo([p EXCEPT !.new_videos = @ + 1])
\* Ok(true): new_videos += 1, then the 5 s sleep
Counted(p) == [p EXCEPT !.new_videos = @ + 1, !.pc = "cooldown"]

\* the manifest request of the pre-warm returns: Ok(true) counts the video
\* and waits the cooldown, an Err is logged, a panic ends the task
PassPrewarmHttp(o, body, io_ok) ==
    /\ pass[o].pc = "prewarm_http"
    /\ LET f == FilterAndCache(pass[o].videos[pass[o].i].id, body, TRUE, io_ok, now) IN
       /\ cache' = f.cache
       /\ pass' = [pass EXCEPT ![o] =
                     IF f.st = "ok" THEN Counted(@)
                     ELSE IF f.st = "panic" THEN Ended(@, "panic")
                          ELSE NextVideo(@)]
    /\ UNCHANGED <<channels, disk>> /\ UNCHANGED_others
    /\ UNCHANGED_play /\ UNCHANGED_pure

\* the 5 s cooldown after a new video ends
PassCooldown(o) ==
    /\ pass[o].pc = "cooldown"
    /\ pass' = [pass EXCEPT ![o] = NextVideo(@)]
    /\ UNCHANGED <<cache, channels, disk>> /\ UNCHANGED_others
    /\ UNCHANGED_play /\ UNCHANGED_pure

\* (a watermark step that writes the source back with the descriptor it had
\* when it was created)
AdvanceWatermarkStale(chs, id, t) ==
    IF FindIdx(chs, id) = 0 THEN chs
    ELSE LET c == chs[FindIdx(chs, id)]
         IN  [chs EXCEPT ![FindIdx(chs, id)] =
                 [c EXCEPT !.last_checked = t, !.handle = c.id, !.max_age_days = 0]]

\* the watermark of the source with the pass's id becomes the current time
AdvanceToEpoch(chs, id, t) ==
    IF FindIdx(chs, id) = 0 THEN chs ELSE [chs EXCEPT ![FindIdx(chs, id)].last_checked = Epoch]
AdvanceWatermark(chs, id, t) ==
    IF FindIdx(chs, id) = 0 THEN chs ELSE [chs EXCEPT ![FindIdx(chs, id)].last_checked = t]

\* the end of process_new_videos: the write guard, the watermark, the save
PassAdvance(o, io_ok) ==
    /\ pass[o].pc = "advance"
    /\ CanWrite
    /\ channels' = AdvanceWatermark(channels, pass[o].ch.id, now)
    /\ pass' = [pass EXCEPT ![o] =
                  Ended(@, IF FindIdx(channels, pass[o].ch.id) # 0 /\ ~io_ok THEN "err" ELSE "ok")]
    /\ UNCHANGED <<cache, disk>> /\ UNCHANGED_others
    /\ UNCHANGED_play /\ UNCHANGED_pure

(***************************************************************************)
(* The rescan loop: check_channels.                                        *)
(***************************************************************************)
RescanInit == rescan = [pc |-> "top", queue |-> <<>>, k |-> 0]

\* the head of the loop: the pause flag, the snapshot
RescanTop ==
    /\ rescan.pc = "top"
    /\ rescan' = IF paused THEN [pc |-> "sleep600", queue |-> <<>>, k |-> 0]
                 ELSE [pc |-> "run", queue |-> channels, k |-> 0]
    /\ pass' = [o \in Slots |-> IF o \in RescanSlots THEN NoPass ELSE pass[o]]
    /\ UNCHANGED <<now, ticks, lock, cache, channels, paused, maintain, nextUid, disk>>
    /\ UNCHANGED_play /\ UNCHANGED_pure

\* process_new_videos is awaited: the loop has no pass of its own in flight
RescanFree == \A o \in RescanSlots : ~InFlight(o)

\* (a loop that takes an Err of process_new_videos as its own)
LoopAliveNoErr == \A o \in RescanSlots : pass[o].res \notin {"panic", "err"}
\* the match on the pass's result logs Ok and Err alike; a panic of the pass
\* unwinds the task of the loop
LoopAlive == \A o \in RescanSlots : pass[o].res # "panic"

\* the for loop takes the next source of the snapshot, or goes to sleep
RescanStep ==
    /\ rescan.pc = "run"
    /\ RescanFree
    /\ LoopAlive
    /\ IF rescan.k < Len(rescan.queue)
       THEN /\ rescan' = [rescan EXCEPT !.k = @ + 1]
            /\ pass' = [pass EXCEPT ![RescanSlot(rescan.k + 1)] = StartPass(rescan.queue[rescan.k + 1])]
       ELSE /\ rescan' = [rescan EXCEPT !.pc = "sleep"]
            /\ UNCHANGED pass
    /\ UNCHANGED <<now, ticks, lock, cache, channels, paused, maintain, nextUid, disk>>
    /\ UNCHANGED_play /\ UNCHANGED_pure

\* a sleep of the loop ends: 600 s when paused, check_interval minutes otherwise
RescanWake ==
    /\ rescan.pc \in {"sleep600", "sleep"}
    /\ rescan' = [rescan EXCEPT !.pc = "top"]
    /\ UNCHANGED <<now, ticks, lock, cache, channels, paused, maintain, nextUid, disk, pass>>
    /\ UNCHANGED_play /\ UNCHANGED_pure

(***************************************************************************)
(* Manually triggered runs.                                                *)
(***************************************************************************)
\* load_channel_videos and load_playlist_videos: the reset.  Under the write
\* guard the directory is removed (rm_ok; a failure is logged), the watermark
\* reset and the store rewritten (io_ok); then the pass runs on the reset copy
ResetSource(kind, id, m, rm_ok, io_ok) ==
    /\ CanWrite
    /\ pass[ManualSlot(m)].pc \in {"none", "ended"}
    /\ FindIdx(channels, id) # 0
    /\ channels[FindIdx(channels, id)].kind = kind
    /\ LET i == FindIdx(channels, id)
           ch == [channels[i] EXCEPT !.last_checked =
                      InitialWatermark(kind, channels[i].max_age_days, now)]
       IN  /\ disk' = IF rm_ok THEN [disk EXCEPT ![channels[i].media_dir] = NoDir] ELSE disk
           /\ channels' = [channels EXCEPT ![i] = ch]
           /\ pass' = [pass EXCEPT ![ManualSlot(m)] = IF io_ok THEN StartPass(ch) ELSE NoPass]
    /\ UNCHANGED <<now, ticks, lock, cache, paused, maintain, nextUid, rescan>>
    /\ UNCHANGED_play /\ UNCHANGED_pure

\* progress_sse_handler: a pass on the current copy of the source, no reset
SyncNow(id, m) ==
    /\ pass[ManualSlot(m)].pc \in {"none", "ended"}
    /\ FindIdx(channels, id) # 0
    /\ pass' = [pass EXCEPT ![ManualSlot(m)] = StartPass(channels[FindIdx(channels, id)])]
    /\ UNCHANGED <<now, ticks, lock, cache, channels, paused, maintain, nextUid, disk, rescan>>
    /\ UNCHANGED_play /\ UNCHANGED_pure

(***************************************************************************)
(* Claims about playback and the cache.                                    *)
(***************************************************************************)
\* C3 as stated: no task holds the registry lock while a Collaborator call or
\* a network request of that task is outstanding.
C3_NoLockWhileOutstanding ==
    \A r \in Reqs : PlayTask(r) \in lock => ~PlayOutstanding(r)

\* C4 as stated: every playback request that has ended, or has begun to
\* answer, has a successful response (never an error status, never an abort).
C4_AlwaysSuccessful ==
    \A r \in Reqs :
        req[r].pc \in {"done", "streaming", "aborted"}
            => (req[r].pc # "aborted" /\ req[r].resp.status = 200)

\* C5: a request that finds a present and valid entry answers with exactly
\* that entry's content at once, with no Collaborator or network call and
\* with the cache as it was; the Collaborator call is started only when the
\* entry is absent or invalid.
C5_CacheHitNoFetch ==
    [][\A r \in Reqs :
          (req[r].pc = "idle" /\ req'[r].pc # "idle") =>
              IF /\ cache[req'[r].v] # NoFile
                 /\ is_valid(ManifestCache_new(req'[r].v, cache[req'[r].v].content, now).expires, now)
              THEN /\ req'[r].pc = "done"
                   /\ req'[r].via = "cache"
                   /\ req'[r].resp = [status |-> 200, body |-> cache[req'[r].v].content]
                   /\ cache' = cache
                   /\ lock' = lock
              ELSE /\ req'[r].pc = "meta"
                   /\ req'[r].via = "none"]_vars

\* a request answered from the cache, while an entry that is no longer valid
\* sits in the cache beside it
C5_Witness ==
    \E r \in Reqs :
        /\ req[r].pc = "done" /\ req[r].via = "cache"
        /\ req[r].resp.body = cache[req[r].v].content
        /\ \E v \in Videos :
              cache[v] # NoFile /\ ~is_valid(ManifestCache_load(v, now).expires, now)

IsFetched(r) == req[r].pc = "http" /\ req'[r].pc = "done"
ExpiresAsWritten(v) == ManifestCache_new(v, cache[v].content, cache[v].written).expires

\* C7 as stated: loading an entry at any time yields the expiry it had when
\* it was written, so an entry without a marker is invalid from 300 s before
\* its write time plus 6 hours on.
C7_ExpiryFixedAtWrite ==
    \A v \in Videos :
        cache[v] # NoFile =>
            /\ ManifestCache_load(v, now).expires = ExpiresAsWritten(v)
            /\ (now + ValidMargin >= ExpiresAsWritten(v))
                   => ~is_valid(ManifestCache_load(v, now).expires, now)

PlayNext ==
    \/ \E r \in Reqs, v \in Videos : PlayBegin(r, v)
    \/ \E r \in Reqs, o \in MetaOutcomes : PlayMeta(r, o)
    \/ \E r \in Reqs, io_ok \in BOOLEAN : \E body \in HttpOutcomes(now) : PlayHttp(r, body, io_ok)
    \/ \E r \in Reqs, spawned \in BOOLEAN : PlayFallback(r, spawned)
    \/ \E r \in Reqs : PlayStreamEnd(r)
    \/ \E r \in Reqs : PlayClose(r)
    \/ ToggleMaintenance
    \/ \E d \in TickSteps : Tick(d)

SweepNext ==
    \/ \E dir_ok \in BOOLEAN : SweepTop(dir_ok)
    \/ SweepIter
    \/ \E o \in MetaOutcomes : SweepMeta(o)
    \/ \E io_ok \in BOOLEAN : \E body \in HttpOutcomes(now) : SweepHttp(body, io_ok)
    \/ SweepWake
    \/ \E r \in Reqs, v \in Videos : PlayBegin(r, v)
    \/ \E r \in Reqs, o \in MetaOutcomes : PlayMeta(r, o)
    \/ \E r \in Reqs, io_ok \in BOOLEAN : \E body \in HttpOutcomes(now) : PlayHttp(r, body, io_ok)
    \/ \E r \in Reqs, spawned \in BOOLEAN : PlayFallback(r, spawned)
    \/ \E r \in Reqs : PlayStreamEnd(r)
    \/ \E r \in Reqs : PlayClose(r)
    \/ ToggleMaintenance
    \/ toggle_background_tasks
    \/ \E d \in TickSteps : Tick(d)

(***************************************************************************)
(* Claims about the registry and the sync passes.                          *)
(***************************************************************************)
Uids(chs) == {chs[i].uid : i \in 1..Len(chs)}
WatermarkOf(chs, u) == chs[CHOOSE i \in 1..Len(chs) : chs[i].uid = u].last_checked
IsReset ==
    \E kind \in Kinds, id \in Handles, m \in 1..MaxManual, rm_ok, io_ok \in BOOLEAN :
        ResetSource(kind, id, m, rm_ok, io_ok)

\* C1: in every step, whatever the interleaving of rescans, manual runs,
\* create/update/delete and settings changes, the watermark (last_checked) of
\* every source that is tracked before and after the step does not decrease,
\* unless the step is the explicit reset; and the clock it is taken from
\* does not go back.
C1_WatermarkMonotone ==
    [][/\ now' >= now
       /\ \/ IsReset
          \/ \A u \in Uids(channels) \cap Uids(channels') :
                WatermarkOf(channels', u) >= WatermarkOf(channels, u)]_vars

\* a rescan pass and a manual run of the same source have both advanced the
\* watermark, the later one after time has passed and after a reset
C1_Witness ==
    /\ \E o \in RescanSlots : pass[o].res = "ok"
    /\ \E o \in ManualSlots : pass[o].res = "ok"
    /\ ticks > 0
    /\ \E i \in 1..Len(channels) :
          channels[i].last_checked = now /\ channels[i].max_age_days > 0 /\ channels[i].uid > 1

\* the yt-dlp invocations outstanding: of the passes (image listing, listing,
\* single-video metadata), of the playback requests (metadata, fallback
\* stream) and of the cache sweep (metadata)
CollaboratorCalls ==
    Cardinality({o \in Slots : CollabOutstanding(o)})
    + Cardinality({r \in Reqs : req[r].pc \in {"meta", "streaming"}})
    + (IF sweep.pc = "meta" THEN 1 ELSE 0)

\* C2: in every reachable state at most one invocation of the Collaborator is
\* outstanding system-wide.
C2_OneCollaboratorCall == CollaboratorCalls <= 1

\* the entries a sweep would refresh at time t
DueForRefresh(t) ==
    {v \in CachedIds : ManifestCache_load(v, t).expires < t + SweepHorizon}
IsSweepTop == \E dir_ok \in BOOLEAN : SweepTop(dir_ok)

\* C22 as stated: a sweep iteration that begins while the pause flag of the
\* rescan loop is set is skipped: it does not go on to the cache entries
\* when one of them is due for a refresh.
C22_SweepRespectsPause ==
    [][(paused /\ IsSweepTop)
       => ~(sweep'.pc = "iter" /\ DueForRefresh(now) # {})]_vars

\* C27 as stated: the sweep takes the cache entries one after the other; it
\* starts a refresh for an entry exactly when the entry's expiry is less
\* than now + 1800, valid or not; whatever the outcome of a refresh, the
\* sweep waits the 15 s and goes on with the remaining entries.
C27_SweepRefreshesDue ==
    [][/\ (sweep.pc = "iter" /\ sweep.files # <<>> /\ sweep' # sweep)
            => IF Head(sweep.files) \in DueForRefresh(now)
               THEN sweep' = [sweep EXCEPT !.pc = "meta"]
               ELSE sweep' = [sweep EXCEPT !.files = Tail(@)]
       /\ (sweep.pc \in {"meta", "http"} /\ sweep' # sweep)
            => /\ sweep'.pc \in {"http", "sleep15"}
               /\ sweep'.files = sweep.files
       /\ (sweep.pc = "sleep15" /\ sweep' # sweep)
            => sweep' = [pc |-> "iter", files |-> Tail(sweep.files)]]_vars

Materialized(d, video) == File(video, "strm") \in disk[d].files
IsVideoStep(o) == \E dir_ok \in BOOLEAN : PassVideo(o, dir_ok)

\* C8: when process_video is called for a video whose stub pointer file the
\* source's directory already holds (a materialization of the same id, date
\* and title has been done), the call returns false (the video is not
\* counted and the pass goes on to the next one), starts no fetch and
\* leaves the files on disk and the cache as they are.
C8_SecondMaterializationNoOp ==
    [][\A o \in Slots :
          (/\ pass[o].pc = "video"
           /\ Materialized(pass[o].ch.media_dir, pass[o].videos[pass[o].i])
           /\ IsVideoStep(o))
          => /\ disk' = disk /\ cache' = cache
             /\ pass'[o] = NextVideo(pass[o])
             /\ pass'[o].new_videos = pass[o].new_videos
             /\ ~NetOutstanding(o)' /\ ~CollabOutstanding(o)']_vars

\* a pass has skipped a video that an earlier pass had materialized and counted
C8_Witness ==
    \E o, q \in Slots :
        /\ o # q
        /\ pass[q].pc = "ended" /\ pass[q].res = "ok"
        /\ pass[o].pc = "advance" /\ pass[o].new_videos = 0 /\ Len(pass[o].videos) = 1
        /\ Materialized(pass[o].ch.media_dir, pass[o].videos[1])
        /\ cache[pass[o].videos[1].id] # NoFile

\* the steps of the passes in flight, whatever the file system, the
\* Collaborator and the network answer
PassNext ==
    \/ \E o \in Slots, dir_ok \in BOOLEAN : PassStructure(o, dir_ok)
    \/ \E o \in Slots, img_ok, nfo_ok \in BOOLEAN : PassImages(o, img_ok, nfo_ok)
    \/ \E o \in Slots, spawned \in BOOLEAN, listing \in Listings : PassListing(o, spawned, listing)
    \/ \E o \in Slots, dir_ok \in BOOLEAN : PassVideo(o, dir_ok)
    \/ \E o \in Slots, net_ok \in BOOLEAN, writes \in 0..3 : PassThumb(o, net_ok, writes)
    \/ \E o \in Slots, outcome \in MetaOutcomes : PassPrewarmMeta(o, outcome)
    \/ \E o \in Slots, io_ok \in BOOLEAN : \E body \in HttpOutcomes(now) : PassPrewarmHttp(o, body, io_ok)
    \/ \E o \in Slots : PassCooldown(o)
    \/ \E o \in Slots, io_ok \in BOOLEAN : PassAdvance(o, io_ok)

\* the rescan loop, manual syncs and resets of the sources of a registry
\* that is not edited
SyncNext ==
    \/ PassNext
    \/ RescanTop
    \/ RescanStep
    \/ RescanWake
    \/ \E kind \in Kinds, id \in Tracked, m \in 1..MaxManual, rm_ok, io_ok \in BOOLEAN :
          ResetSource(kind, id, m, rm_ok, io_ok)
    \/ \E id \in Tracked, m \in 1..MaxManual : SyncNow(id, m)
    \/ \E d \in TickSteps : Tick(d)

\* the steps of the passes in flight on a file system that does not fail and
\* an upstream that serves one manifest or none (the other answers are the
\* subject of SyncNext and PlayNext)
PlainBody == [sig |-> TRUE, lines |-> WithExpiry(GoodBody, 0)]
QuietPassNext ==
    \/ \E o \in Slots : PassStructure(o, TRUE)
    \/ \E o \in Slots : PassImages(o, TRUE, TRUE)
    \/ \E o \in Slots, spawned \in BOOLEAN, listing \in Listings : PassListing(o, spawned, listing)
    \/ \E o \in Slots : PassVideo(o, TRUE)
    \/ \E o \in Slots, net_ok \in BOOLEAN : PassThumb(o, net_ok, 3)
    \/ \E o \in Slots, outcome \in MetaOutcomes : PassPrewarmMeta(o, outcome)
    \/ \E o \in Slots, body \in {NetErr, PlainBody} : PassPrewarmHttp(o, body, TRUE)
    \/ \E o \in Slots : PassCooldown(o)
    \/ \E o \in Slots, io_ok \in BOOLEAN : PassAdvance(o, io_ok)

\* the registry being edited while the rescan loop and manual runs go on
RegistryNext ==
    \/ QuietPassNext
    \/ RescanTop
    \/ RescanStep
    \/ RescanWake
    \/ \E id \in Tracked, m \in 1..MaxManual, io_ok \in BOOLEAN : ResetSource("Channel", id, m, TRUE, io_ok)
    \/ \E id \in Tracked, m \in 1..MaxManual : SyncNow(id, m)
    \/ \E h \in Tracked, max_age_days \in 0..1 : create_channel(h, 0, max_age_days)
    \/ \E id \in Tracked, max_age_days \in 0..1 : update_source("Channel", id, id, 0, max_age_days)
    \/ \E id \in Tracked : delete_source("Channel", id)
    \/ toggle_background_tasks
    \/ \E d \in TickSteps : Tick(d)

\* C19 as stated: after the locked section of an explicit reset, either the
\* source's watermark has its initial value and its directory is gone, or
\* the watermark and the directory are both as they were, whether or not
\* the removal of the directory and the rewrite of the store succeeded.
C19_ResetTogether ==
    [][\A kind \in Kinds, id \in Handles, m \in 1..MaxManual, rm_ok, io_ok \in BOOLEAN :
          ResetSource(kind, id, m, rm_ok, io_ok)
          => LET i == FindIdx(channels, id)
                 d == channels[i].media_dir
             IN  \/ /\ channels'[i].last_checked =
                          InitialWatermark(kind, channels[i].max_age_days, now)
                    /\ ~disk'[d].exists
                 \/ /\ channels'[i].last_checked = channels[i].last_checked
                    /\ disk'[d] = disk[d]]_vars

\* C26 as stated: whatever fails in the collection images or in the
\* writing of the collection summary file tvshow.nfo, the pass goes on to
\* its listing request.
C26_ImagesAndSummaryNonFatal ==
    [][\A o \in Slots :
          (/\ pass[o].pc = "images" /\ pass'[o] # pass[o]
           /\ disk[pass[o].ch.media_dir].exists)
          => pass'[o].pc = "listing"]_vars

\* C23 as stated: when the listing run exits with a non-zero status, with
\* or without records on its output, the pass ends there with a failure (no
\* candidate is attempted, the watermark step is not reached).
C23_NonZeroExitFails ==
    [][\A o \in Slots, listing \in Listings :
          (pass[o].pc = "listing" /\ PassListingOutput(o, TRUE, Output(FALSE, listing)))
          => pass'[o] = Ended(pass[o], "err")]_vars

VideoPcs == {"video", "thumb", "prewarm_meta", "prewarm_http", "cooldown"}
\* C13 as stated: once the listing has left candidates, every step of the
\* pass either stays with the current candidate or goes to the next one, in
\* order, whatever the step's outcome; the pass leaves the candidates only
\* after the last one, for the watermark step, which sets the watermark of
\* the source to the current time.
C13_EveryCandidateThenWatermark ==
    [][\A o \in Slots :
          /\ (pass[o].pc \in VideoPcs /\ pass'[o] # pass[o])
                => /\ pass'[o].videos = pass[o].videos
                   /\ pass'[o].i \in {pass[o].i, pass[o].i + 1}
                   /\ pass'[o].pc \in VideoPcs \cup {"advance"}
                   /\ pass'[o].pc \in VideoPcs <=> pass'[o].i <= Len(pass[o].videos)
          /\ (pass[o].pc = "advance" /\ pass'[o] # pass[o]
                /\ FindIdx(channels, pass[o].ch.id) # 0)
                => /\ pass'[o].pc = "ended"
                   /\ channels'[FindIdx(channels, pass[o].ch.id)].last_checked = now]_vars

\* C15 as stated: when the pre-warm of a video whose artifacts are written
\* is over, with a manifest cached or with a failure, the video is counted
\* and the pass goes on.
C15_PrewarmFailureCounts ==
    [][\A o \in Slots :
          (/\ pass[o].pc \in {"prewarm_meta", "prewarm_http"}
           /\ pass'[o] # pass[o]
           /\ pass'[o].pc # "prewarm_http")
          => /\ pass'[o].new_videos = pass[o].new_videos + 1
             /\ pass'[o].pc # "ended"]_vars

(***************************************************************************)
(* A Channel source with a video limit, synced after a reset with nothing  *)
(* failing.                                                                *)
(***************************************************************************)
\* the records of a listing: two videos, each with one of two titles that
\* differ in a character create_safe_filename replaces, and one of two dates
ScanTitles == {<<"B", "?">>, <<"B", "!">>}
ScanDates == {20230101, 20240105}
ScanPool == {VideoInfo(id, title, d) : id \in Videos, title \in ScanTitles, d \in ScanDates}
\* the listings: up to MaxScan records, no video twice
ScanListings ==
    {l \in UNION {[1..n -> ScanPool] : n \in 0..MaxScan} :
        \A i, j \in DOMAIN l : l[i].id = l[j].id => i = j}

ScanRegistryInit ==
    /\ \E k \in 0..MaxKeep : channels = <<Channel("a", "Channel", "a", k, 0, Epoch, 1)>>
    /\ paused = FALSE /\ maintain = FALSE /\ nextUid = 2

ScanNext ==
    \/ \E m \in 1..MaxManual : ResetSource("Channel", "a", m, TRUE, TRUE)
    \/ \E o \in ManualSlots : PassStructure(o, TRUE)
    \/ \E o \in ManualSlots : PassImages(o, TRUE, TRUE)
    \/ \E o \in ManualSlots, listing \in ScanListings : PassListing(o, TRUE, listing)
    \/ \E o \in ManualSlots : PassVideo(o, TRUE)
    \/ \E o \in ManualSlots : PassThumb(o, TRUE, 3)
    \/ \E o \in ManualSlots : PassPrewarmMeta(o, "manifest_url")
    \/ \E o \in ManualSlots : PassPrewarmHttp(o, PlainBody, TRUE)
    \/ \E o \in ManualSlots : PassCooldown(o)
    \/ \E o \in ManualSlots : PassAdvance(o, TRUE)

Records(list) == {list[i] : i \in DOMAIN list}
\* the number of records a pass on ch keeps of n
Kept(ch, n) == IF ch.kind = "Channel" /\ ch.max_videos > 0 THEN Min(ch.max_videos, n) ELSE n
\* vs are Kept(ch, n) records of listing, none older than a record left out
KeepsNewest(ch, listing, vs) ==
    /\ Len(vs) = Kept(ch, Len(listing))
    /\ Cardinality(Records(vs)) = Len(vs)
    /\ Records(vs) \subseteq Records(listing)
    /\ \A x \in Records(listing) \ Records(vs), y \in Records(vs) :
          x.upload_date <= y.upload_date
Stubs(d) == {f \in disk[d].files : f.ext = "strm"}

\* C12 as stated: in a pass of a Channel source with maxVideos = k that
\* starts on an empty directory and in which nothing fails, a listing of n
\* records leaves min(k, n) candidates, the ones with the greatest
\* uploadDate, and when the pass reaches its watermark step exactly that
\* many videos are materialized and counted.
C12_MaterializesNewestK ==
    [][\A o \in ManualSlots : pass[o].ch.max_videos > 0 =>
          /\ \A listing \in ScanListings :
                (pass[o].pc = "listing" /\ PassListing(o, TRUE, listing) /\ pass'[o].pc = "video")
                => KeepsNewest(pass[o].ch, listing, pass'[o].videos)
          /\ (pass[o].pc = "advance" /\ PassAdvance(o, TRUE))
                => /\ Cardinality(Stubs(pass[o].ch.media_dir)) = Len(pass[o].videos)
                   /\ pass[o].new_videos = Len(pass[o].videos)]_vars

\* C25: a candidate whose stub pointer file exists is passed over in one
\* step: the pass goes to the next candidate with no request or yt-dlp run
\* outstanding, no file written, no cache entry written, the counter as it
\* was and no cooldown; and the counter goes up by one exactly in the steps
\* that enter the cooldown, which is left for the next candidate.
C25_SkipIsFree ==
    [][\A o \in ManualSlots :
          /\ (pass[o].pc = "video" /\ pass'[o] # pass[o]
                /\ Materialized(pass[o].ch.media_dir, pass[o].videos[pass[o].i]))
                => /\ pass'[o] = NextVideo(pass[o])
                   /\ disk' = disk /\ cache' = cache
          /\ (pass[o].pc \in VideoPcs /\ pass'[o] # pass[o])
                => /\ pass'[o].new_videos \in {pass[o].new_videos, pass[o].new_videos + 1}
                   /\ (pass'[o].new_videos = pass[o].new_videos + 1)
                         <=> (pass'[o].pc = "cooldown" /\ pass[o].pc # "cooldown")
                   /\ pass[o].pc = "cooldown" => pass'[o] = NextVideo(pass[o])]_vars
\* in a pass in which nothing fails, one of two candidates was counted and
\* the other one, whose stub existed, passed over
C25_Witness ==
    \E o \in ManualSlots :
        /\ pass[o].pc = "advance" /\ Len(pass[o].videos) = 2 /\ pass[o].new_videos = 1
        /\ \A i \in 1..2 : Materialized(pass[o].ch.media_dir, pass[o].videos[i])

\* C14: when the listing call of a pass returns and no candidate is left
\* after parsing, sorting and truncation, the pass ends there with a failure:
\* it takes no further step (no video is materialized, the watermark step is
\* not reached), and the registry, the files on disk and the cache are as
\* they were.
C14_NoItemsFailure ==
    [][\A o \in ManualSlots, listing \in ScanListings :
          (/\ pass[o].pc = "listing"
           /\ TruncateVideos(pass[o].ch, SortNewest(listing)) = <<>>
           /\ PassListing(o, TRUE, listing))
          => /\ pass'[o] = Ended(pass[o], "err")
             /\ channels' = channels /\ disk' = disk /\ cache' = cache]_vars
\* a pass has ended with the failure after the base structure was written:
\* no video file is on disk and the watermark is the one of the reset
C14_Witness ==
    /\ pass[ManualSlot(1)].pc = "ended" /\ pass[ManualSlot(1)].res = "err"
    /\ "tvshow.nfo" \in disk["a"].top
    /\ disk["a"].files = {}
    /\ channels[1].last_checked = Epoch

\* C16 as stated: when the source a pass was started on is no longer in the
\* registry at the pass's watermark step, the step changes nothing in the
\* registry and the pass ends without error.
C16_RemovedSourceUntouched ==
    [][\A o \in Slots :
          (/\ pass[o].pc = "advance"
           /\ pass[o].ch.uid \notin Uids(channels)
           /\ pass'[o] # pass[o])
          => /\ channels' = channels
             /\ pass'[o].pc = "ended" /\ pass'[o].res = "ok"]_vars

UniqueIds(chs) == \A i, j \in 1..Len(chs) : chs[i].id = chs[j].id => i = j
IsUpdate ==
    \E kind \in Kinds, id, h \in Handles, max_age_days \in 0..1 :
        update_source(kind, id, h, 0, max_age_days)
\* C17 as stated: after every create-channel, create-playlist, update and
\* delete, no two sources of the registry have the same id; and an update
\* leaves the id of every source as it was.
C17_IdsUniqueAndStable ==
    [][/\ UniqueIds(channels')
       /\ IsUpdate => /\ Len(channels') = Len(channels)
                      /\ \A i \in 1..Len(channels) : channels'[i].id = channels[i].id]_vars

\* C18 as stated: a delete removes the source from the registry together
\* with its media directory: after the step the directory of every removed
\* source does not exist.
C18_DeleteRemovesDirectory ==
    [][\A kind \in Kinds, id \in Handles :
          delete_source(kind, id)
          => \A i \in 1..Len(channels) :
                (channels[i].kind = kind /\ channels[i].id = id)
                => ~disk'[channels[i].media_dir].exists]_vars

(***************************************************************************)
(* The rescan loop over a registry of MaxSources sources.                  *)
(***************************************************************************)
RescanRegistryInit ==
    /\ channels = <<Channel("a", "Channel", "a", 0, 0, Epoch, 1),
                    Channel("b", "Channel", "b", 0, 0, Epoch, 2)>>
    /\ paused = FALSE /\ maintain = FALSE /\ nextUid = 3

RescanNext ==
    \/ PassNext
    \/ RescanTop
    \/ RescanStep
    \/ RescanWake
    \/ toggle_background_tasks

\* the sources of the snapshot are taken in order, one at a time
RescanOrderly ==
    rescan.pc \in {"run", "sleep"} =>
        /\ \A j \in 1..MaxSources :
              /\ j < rescan.k => pass[RescanSlot(j)].pc = "ended"
              /\ j > rescan.k => pass[RescanSlot(j)].pc = "none"
              /\ j = rescan.k => pass[RescanSlot(j)].pc # "none"
        /\ rescan.pc = "sleep" =>
              /\ rescan.k = Len(rescan.queue)
              /\ \A j \in 1..Len(rescan.queue) : pass[RescanSlot(j)].pc = "ended"
\* the loop can go on whenever its pass has returned, with Ok or with Err
RescanGoesOn ==
    (rescan.pc = "run" /\ RescanFree /\ \A o \in RescanSlots : pass[o].res # "panic")
    => ENABLED RescanStep
\* a pass of the loop starts only on the next source of the snapshot, in a
\* slot that has not run in this cycle
StartsNextOnly ==
    \A j \in 1..MaxSources :
        (pass'[RescanSlot(j)].pc = "start" /\ pass[RescanSlot(j)] # pass'[RescanSlot(j)])
        => /\ pass[RescanSlot(j)].pc = "none"
           /\ rescan.k = j - 1 /\ rescan'.k = j
           /\ pass'[RescanSlot(j)].ch = Snapshot(rescan.queue[j])

\* C20: in a cycle of the rescan loop the sources of the snapshot are
\* processed in order, each once and never again in the cycle; a pass that
\* returns an error (base structure, listing, no items, store rewrite)
\* leaves the loop able to go on with the next source, and the loop goes to
\* sleep only when every source of the snapshot has been processed.
C20_RescanSurvivesFailure ==
    [](RescanOrderly /\ RescanGoesOn) /\ [][StartsNextOnly]_vars
\* the pass of the first source has failed and the second source's pass runs
C20_Witness ==
    /\ rescan.pc = "run" /\ rescan.k = 2
    /\ pass[RescanSlot(1)].pc = "ended" /\ pass[RescanSlot(1)].res = "err"
    /\ pass[RescanSlot(2)].pc = "listing" /\ pass[RescanSlot(2)].ch.id = "b"

HasArtifact(d, f, ext) == [f EXCEPT !.ext = ext] \in disk[d].files
\* C24: in every state of a run in which the rescan loop is the only writer,
\* whatever step of a materialization failed, a directory that holds a
\* video's stub pointer file holds its thumbnail and its metadata file too.
C24_StubWrittenLast ==
    \A d \in Handles : \A f \in disk[d].files :
        f.ext = "strm" => HasArtifact(d, f, "-thumb.jpg") /\ HasArtifact(d, f, "nfo")
\* one source has a complete video, the other one a thumbnail whose
\* materialization failed before the stub
C24_Witness ==
    /\ \E f \in disk["a"].files : f.ext = "strm"
    /\ \E f \in disk["b"].files :
          f.ext = "-thumb.jpg" /\ ~HasArtifact("b", f, "nfo") /\ ~HasArtifact("b", f, "strm")

(***************************************************************************)
(* The date lower bound of the listing request (scan_videos).  Times are   *)
(* seconds since the epoch; the bound is passed as a day (%Y%m%d).         *)
(***************************************************************************)
NoBound == [some |-> FALSE, day |-> 0]
Day(t) == t \div DaySecs
BoundOf(t) == [some |-> TRUE, day |-> Day(t)]
\* last_checked.elapsed() is Ok with at least one whole second
ElapsedPositive(last_checked, t) == last_checked <= t /\ t - last_checked > 0
\* date_after as scan_videos computes it, and the --dateafter argument
date_after(kind, max_age_days, last_checked, t) ==
    LET from_checked == ElapsedPositive(last_checked, t)
        checked == last_checked - 2 * DaySecs
        max_age_date == t - max_age_days * DaySecs
    IN  IF kind = "Channel" /\ max_age_days > 0
        THEN IF from_checked
             THEN BoundOf(IF max_age_date > checked THEN max_age_date ELSE checked)
             ELSE BoundOf(max_age_date)
        ELSE IF from_checked THEN BoundOf(checked) ELSE NoBound

\* the sources and times the bound is computed for
BoundTimes == {StartTime, StartTime + DaySecs \div 2}
CheckedOffsets == {-5 * DaySecs, -DaySecs, -1, 0, 1, DaySecs}
BoundInit ==
    /\ now \in BoundTimes
    /\ \E kind \in Kinds, max_age_days \in 0..MaxAge,
          last_checked \in {Epoch} \cup {now + d : d \in CheckedOffsets} :
          probe = [kind |-> kind, max_age_days |-> max_age_days,
                   last_checked |-> last_checked, done |-> FALSE, bound |-> NoBound]
ApplyDateAfter ==
    /\ ~probe.done
    /\ probe' = [probe EXCEPT !.done = TRUE, !.bound =
                    date_after(probe.kind, probe.max_age_days, probe.last_checked, now)]
    /\ UNCHANGED <<manifest, filtered, now, ticks, lock, cache, req, sweep,
                   channels, paused, maintain, nextUid, disk, rescan, pass>>

Later(a, b) == IF a > b THEN a ELSE b
\* the bound of the rule: the later of last_checked - 2 days and, for a
\* Channel with max_age_days, now - max_age_days
RuleBound(kind, max_age_days, last_checked, t) ==
    IF kind = "Channel" /\ max_age_days > 0
    THEN BoundOf(Later(last_checked - 2 * DaySecs, t - max_age_days * DaySecs))
    ELSE BoundOf(last_checked - 2 * DaySecs)
\* C29 as stated: for every last_checked (the epoch, a time before now, now
\* itself, a time after now) the --dateafter argument is the day of
\* max(last_checked - 2 days, now - max_age_days) for a Channel with
\* max_age_days, and of last_checked - 2 days otherwise.
C29_DateBoundRule ==
    probe.done =>
        probe.bound = RuleBound(probe.kind, probe.max_age_days, probe.last_checked, now)

\* the tasks of the runtime are scheduled: a step of the loop or of a pass
\* that can be taken is taken
RescanFairness ==
    /\ WF_vars(RescanTop) /\ WF_vars(RescanStep) /\ WF_vars(RescanWake)
    /\ WF_vars(PassNext)

\* C21 as stated: a head of the rescan loop that finds the pause flag set
\* starts no pass and goes to the 600 s sleep before it looks again; and
\* when the flag is cleared for good, the loop keeps completing cycles (it
\* reaches its sleep after the passes of all sources of a snapshot).
C21_PauseThenResume ==
    /\ [][(paused /\ RescanTop)
            => /\ rescan'.pc = "sleep600"
               /\ \A o \in RescanSlots : pass'[o].pc = "none"]_vars
    /\ (<>[](~paused)) => []<>(rescan.pc = "sleep")

(***************************************************************************)
(* The address of the server and the content of a stub.  A string is the  *)
(* sequence of its parts: a scheme prefix, a host with its port, the path *)
(* prefix of the playback endpoint, a video id.                           *)
(***************************************************************************)
Schemes == {"http://", "https://"}
Hosts == {"localhost:8080", "192.168.1.10:8080", "ytstrm.lan", "media.example.org"}

\* Config::load of a fresh installation: no scheme
DefaultAddress == <<"localhost:8080">>

\* what the form can hold: empty, or a host with no scheme, http:// or https://
AddressForms ==
    {<<>>} \cup {<<h>> : h \in Hosts} \cup {<<s, h>> : s \in Schemes, h \in Hosts}

\* str::starts_with("http")
StartsWithHttp(s) == s # <<>> /\ Head(s) \in Schemes

\* Url::parse(..).is_ok() on the strings of the model: a scheme followed by
\* a non-empty host
UrlParses(s) == Len(s) = 2 /\ s[1] \in Schemes /\ s[2] \in Hosts

url_str(form) == IF ~StartsWithHttp(form) THEN <<"http://">> \o form ELSE form

\* str::trim_start_matches(pat): the prefix is removed as often as it occurs
RECURSIVE trim_start_matches(_, _)
trim_start_matches(s, pat) ==
    IF s # <<>> /\ Head(s) = pat THEN trim_start_matches(Tail(s), pat) ELSE s

\* format!("http://{}/stream/{}", server_address.trim_start_matches("http://"), video.id)
strm_content(server_address, id) ==
    <<"http://">> \o trim_start_matches(server_address, "http://") \o <<"/stream/", id>>

StubInit == probe = [server_address |-> DefaultAddress, strm |-> <<>>]

StubRest ==
    UNCHANGED <<manifest, filtered, now, ticks, lock, cache, req, sweep,
                channels, paused, maintain, nextUid, disk, rescan, pass>>

\* PUT of the server address: a form that does not parse is answered with
\* an error and changes nothing; otherwise the address is set in memory
\* (whether or not the save to the file succeeds)
update_server_address(form) ==
    /\ probe' = IF UrlParses(url_str(form))
                THEN [probe EXCEPT !.server_address = url_str(form)]
                ELSE probe
    /\ StubRest

\* process_video writes the stub of a video with the address of the registry
WriteStrm(id) ==
    /\ probe' = [probe EXCEPT !.strm = strm_content(probe.server_address, id)]
    /\ StubRest

StubNext ==
    \/ \E form \in AddressForms : update_server_address(form)
    \/ \E id \in Videos : WriteStrm(id)

\* the host of an address: what follows its scheme
HostOf(server_address) == server_address[Len(server_address)]

\* C30 as stated: whatever accepted address is configured (no scheme,
\* http:// or https://), the stub written for a video id holds an http(s)
\* URL made of a scheme, the configured host and the path /stream/<id>.
C30_StubIsPlaybackUrl ==
    [][\A id \in Videos :
          WriteStrm(id) =>
              \E s \in Schemes :
                  probe'.strm = <<s, HostOf(probe.server_address), "/stream/", id>>]_vars

\* the directory of the manifest cache under the media path (main.rs:94)
ManifestsDir == "manifests"

\* C31 as stated: whatever was created, updated and deleted, no two tracked
\* sources have the same media_dir and no source has the directory of the
\* manifest cache as its media_dir.
C31_MediaDirExclusive ==
    /\ \A i, j \in 1..Len(channels) :
          i # j => channels[i].media_dir # channels[j].media_dir
    /\ \A i \in 1..Len(channels) : channels[i].media_dir # ManifestsDir

\* C32 as stated: the filter returns an output for every line sequence,
\* also for one that ends in a variant declaration with no URL line; it
\* never aborts.
C32_FilterTotal ==
    filtered # NotRun => filtered.st = "ok"

\* a step in which a resolve or a refresh fails: the Collaborator call gives
\* no manifest URL, or the request, the signature test or the filter fails
FetchFails ==
    \/ \E r \in Reqs, o \in MetaOutcomes \ {"manifest_url"} : PlayMeta(r, o)
    \/ \E o \in MetaOutcomes \ {"manifest_url"} : SweepMeta(o)
    \/ \E r \in Reqs, io_ok \in BOOLEAN : \E body \in HttpOutcomes(now) :
          /\ FilterAndCache(req[r].v, body, TRUE, io_ok, now).st # "ok"
          /\ PlayHttp(r, body, io_ok)
    \/ \E io_ok \in BOOLEAN : \E body \in HttpOutcomes(now) :
          /\ sweep.pc = "http"
          /\ FilterAndCache(Head(sweep.files), body, TRUE, io_ok, now).st # "ok"
          /\ SweepHttp(body, io_ok)

\* C33: a resolve or a sweep refresh that fails leaves every cache entry,
\* the one of its video id included, as it was.
C33_FailedFetchKeepsCache ==
    [][FetchFails => cache' = cache]_vars

\* a request whose resolve failed (it is at the fallback) while the cache
\* holds an entry of its id
C33_Witness ==
    \E r \in Reqs :
        /\ req[r].pc = "fallback"
        /\ cache[req[r].v] # NoFile

\* C34 as stated, for the watermark step: when the rewrite of the store
\* fails in a mutation of the registry, the registry in memory is left as
\* it was before the mutation.
C34_FailedSaveRollsBack ==
    [][\A o \in Slots :
          (FindIdx(channels, pass[o].ch.id) # 0 /\ PassAdvance(o, FALSE))
              => channels' = channels]_vars

\* the rescan loop and manual runs on a registry that is not edited and a
\* media tree nothing is removed from
OverlapNext ==
    \/ QuietPassNext
    \/ RescanTop
    \/ RescanStep
    \/ RescanWake
    \/ \E id \in Tracked, m \in 1..MaxManual : SyncNow(id, m)

\* the videos the passes in flight on directory d have counted as new so far
RECURSIVE CountedIn(_, _)
CountedIn(S, d) ==
    IF S = {} THEN 0
    ELSE LET o == CHOOSE x \in S : TRUE
         IN  (IF pass[o].ch.media_dir = d THEN pass[o].new_videos ELSE 0)
             + CountedIn(S \ {o}, d)

\* C35 as stated, while nothing is removed from the tree: the passes in
\* flight on a source have together counted no more videos as new than
\* stub pointer files were created in the source's directory (each video is
\* counted by at most one of the overlapping passes).
C35_CountedOncePerStub ==
    \A d \in Handles :
        CountedIn(Slots, d) <= Cardinality({f \in disk[d].files : f.ext = "strm"})

\* C36 as stated: when a pass in which nothing fails reaches its watermark
\* step, every candidate of its listing has a stub pointer file of its own:
\* the file of its name exists and is not the file of a candidate with
\* another id (a stub holds one URL), also for candidates of one uploadDate
\* whose titles differ only in replaced characters.
C36_EveryCandidateOwnStub ==
    \A o \in ManualSlots :
        pass[o].pc = "advance" =>
            \A i, j \in DOMAIN pass[o].videos :
                /\ StubExists(pass[o].ch.media_dir, pass[o].videos[i])
                /\ pass[o].videos[i].id # pass[o].videos[j].id
                      => File(pass[o].videos[i], "strm") # File(pass[o].videos[j], "strm")

\* C37: the watermark step of a pass changes nothing in the registry but
\* last_checked of the (first) source with the pass's id, which becomes the
\* current time: the descriptor that source has in the registry at the step,
\* edits made since the pass took its snapshot included, every other
\* source and the settings are as before.
C37_WatermarkStepFrame ==
    [][\A o \in Slots :
          (\E io_ok \in BOOLEAN : PassAdvance(o, io_ok))
          => /\ Len(channels') = Len(channels)
             /\ \A i \in 1..Len(channels) :
                   channels'[i] = IF i = FindIdx(channels, pass[o].ch.id)
                                  THEN [channels[i] EXCEPT !.last_checked = now]
                                  ELSE channels[i]
             /\ paused' = paused /\ maintain' = maintain]_vars

\* a pass has advanced the watermark of a source whose handle was edited,
\* beside a second source that still has its initial watermark
C37_Witness ==
    /\ pass[ManualSlot(1)].pc = "ended" /\ pass[ManualSlot(1)].res = "ok"
    /\ Len(channels) = 2
    /\ \E i, j \in 1..2 :
          /\ channels[i].handle # channels[i].id
          /\ channels[i].last_checked = now
          /\ channels[j].id # channels[i].id
          /\ channels[j].last_checked = Epoch

\* C38 as stated, at the head of the sweep loop: whatever the head finds (no
\* channels, maintenance disabled, the cache directory not created, or the
\* listing taken), the loop does not come back to its head without a sleep:
\* it goes to the 900 s sleep or to the listing, which ends in the 1800 s
\* sleep.
C38_EveryIterationWaits ==
    sweep.pc = "top" =>
        \A dir_ok \in BOOLEAN : SweepTopTo(dir_ok).pc \in {"sleep900", "iter"}

\* the registry edited through every create, update and delete handler
\* while manual runs go on
CrudNext ==
    \/ QuietPassNext
    \/ \E id \in Handles, m \in 1..MaxManual : SyncNow(id, m)
    \/ \E h \in Handles, max_age_days \in 0..1 : create_channel(h, 0, max_age_days)
    \/ \E h \in Handles : create_playlist(h)
    \/ \E kind \in Kinds, id, h \in Handles, max_age_days \in 0..1 :
          update_source(kind, id, h, 0, max_age_days)
    \/ \E kind \in Kinds, id \in Handles : delete_source(kind, id)

SyncIdle == RegistryInit /\ DiskInit /\ PassInit /\ RescanInit
PlayIdle == ReqInit /\ SweepInit

Init ==
    /\ FilterIdle /\ ProbeIdle
    /\ ClockInit /\ LockInit /\ CacheInit /\ PlayIdle
    /\ RegistryInit /\ DiskInit /\ PassInit /\ RescanInit

SpecSync == Init /\ [][SyncNext]_vars
SpecRegistry == Init /\ [][RegistryNext]_vars
SpecCrud == Init /\ [][CrudNext]_vars
ScanInit ==
    /\ FilterIdle /\ ProbeIdle
    /\ ClockInit /\ LockInit /\ CacheInit /\ PlayIdle
    /\ ScanRegistryInit /\ DiskInit /\ PassInit /\ RescanInit
SpecScan == ScanInit /\ [][ScanNext]_vars
RescanSpecInit ==
    /\ FilterIdle /\ ProbeIdle
    /\ ClockInit /\ LockInit /\ CacheInit /\ PlayIdle
    /\ RescanRegistryInit /\ DiskInit /\ PassInit /\ RescanInit
SpecRescan == RescanSpecInit /\ [][RescanNext]_vars
SpecRescanLive == RescanSpecInit /\ [][RescanNext]_vars /\ RescanFairness
FilterSpecInit ==
    FilterInit /\ ProbeIdle /\ ClockInit /\ LockInit /\ CacheInit /\ PlayIdle /\ SyncIdle
SpecFilter == FilterSpecInit /\ [][ApplyFilter]_vars
ValidSpecInit ==
    ProbeInit /\ FilterIdle /\ ticks = 0 /\ LockInit /\ CacheInit /\ PlayIdle /\ SyncIdle
SpecValid == ValidSpecInit /\ [][ApplyIsValid]_vars
BoundSpecInit ==
    BoundInit /\ FilterIdle /\ ticks = 0 /\ LockInit /\ CacheInit /\ PlayIdle /\ SyncIdle
SpecBound == BoundSpecInit /\ [][ApplyDateAfter]_vars
StubSpecInit ==
    StubInit /\ FilterIdle /\ ClockInit /\ LockInit /\ CacheInit /\ PlayIdle /\ SyncIdle
SpecStub == StubSpecInit /\ [][StubNext]_vars
SpecOverlap == Init /\ [][OverlapNext]_vars
SpecPlay == Init /\ [][PlayNext]_vars
SpecSweep == Init /\ [][SweepNext]_vars
====
